---- MODULE Spec2Model ----
(***************************************************************************)
(* Model of the luart token contract (contracts/token/src/contract.rs):    *)
(* a cw20 ledger whose Send and SendFrom take a swap fee, and whose fee    *)
(* policy (SWAP_FEE_CONFIG) is changed by UpdateSwapFeeConfig.             *)
(*                                                                         *)
(* The state is the contract's storage: BALANCES, ALLOWANCES, TOKEN_INFO   *)
(* and the SWAP_FEE_CONFIG item.  Every handler is an operator from the storage    *)
(* and the message to the storage it leaves behind and the Result it       *)
(* returns.  A handler that returns Err leaves the storage exactly as its  *)
(* own writes left it: nothing in this repository undoes a write.          *)
(***************************************************************************)
EXTENDS Integers, Sequences, FiniteSets, TLC

VARIABLES
    balances,         \* BALANCES: Addr -> Uint128 (a missing key reads as 0)
    allowances,       \* ALLOWANCES: (owner, spender) -> Option<AllowanceResponse>
    swap_fee_config,  \* SWAP_FEE_CONFIG: Option<SwapFeeConfig>
    token_info,       \* TOKEN_INFO: total_supply and the optional minter
    replaced_receiver,\* history: the fee_receiver the latest change of receiver replaced
    last              \* the message being answered: request, storage before, Result

vars == <<balances, allowances, swap_fee_config, token_info, replaced_receiver, last>>

----------------------------------------------------------------------------
(* Bounds of the model *)

MaxSupply == 2        \* total of the initial balances; amounts range over 0..MaxSupply
DecimalPlaces == 1    \* decimal places kept by Decimal (the library keeps 18)
UintBits == 10        \* bits of Uint128 in the fee calculation taken alone (128)
MaxFeePercent == 12   \* percentages given to the fee calculation taken alone

----------------------------------------------------------------------------
(* Values *)

None == <<>>
Some(x) == <<x>>

Addrs == {"owner", "sender", "fee_receiver", "dex_contract"}

\* a string addr_validate rejects
MalformedAddr == "x"

Amounts == 0..MaxSupply

\* Binary payloads: the swap hook, another hook of the same enum, undecodable bytes
SwapMsg == "swap"
Payloads == {SwapMsg, "withdraw_liquidity", "garbage"}

\* Decimal: an integer count of 10^-DecimalPlaces units
DECIMAL_FRACTIONAL == 10 ^ DecimalPlaces

DecimalPercent(n) == n * DECIMAL_FRACTIONAL

\* the percentages instantiate is called with
Percents == {DecimalPercent(50), DecimalPercent(100)}

\* mock_env().block.height
BlockHeight == 12345

Never == [kind |-> "never", at |-> 0]
AtHeight(h) == [kind |-> "at_height", at |-> h]

Expirations == {Never, AtHeight(BlockHeight)}

is_expired(expires) == expires.kind = "at_height" /\ BlockHeight >= expires.at

----------------------------------------------------------------------------
(* Results *)

Ok(attributes, messages) ==
    [ok |-> TRUE, err |-> "", attributes |-> attributes, messages |-> messages]

Err(e) == [ok |-> FALSE, err |-> e, attributes |-> <<>>, messages |-> <<>>]

Outcome(storage, result) == [storage |-> storage, result |-> result]

\* Cw20ReceiveMsg{sender, amount, msg}.into_cosmos_msg(contract)
Cw20ReceiveMsg(contract, sender, amount, msg) ==
    [contract |-> contract, sender |-> sender, amount |-> amount, msg |-> msg]

addr_validate(s) == s \in Addrs

----------------------------------------------------------------------------
(* The storage the handlers read and write *)

Storage(b, a, c, t) ==
    [balances |-> b, allowances |-> a, swap_fee_config |-> c, token_info |-> t]

\* MoveTokens with the recipient's balance read before the sender's is written
MoveTokens_stale_read(b, sender, recipient, amount) ==
    LET debited == [b EXCEPT ![sender] = b[sender] - amount]
    IN  [debited EXCEPT ![recipient] = b[recipient] + amount]

\* BALANCES.update(sender, checked_sub) then BALANCES.update(recipient, +), in
\* that order: the second update reads what the first wrote
MoveTokens(b, sender, recipient, amount) ==
    LET debited == [b EXCEPT ![sender] = @ - amount]
    IN  [debited EXCEPT ![recipient] = @ + amount]

\* transfer with the debit of the sender left out
transfer_no_debit(s, sender, recipient, amount) ==
    IF amount = 0
    THEN Outcome(s, Err("InvalidZeroAmount"))
    ELSE IF s.balances[sender] < amount
    THEN Outcome(s, Err("Overflow"))
    ELSE Outcome([s EXCEPT !.balances[recipient] = @ + amount], Ok(<<>>, <<>>))

\* fn transfer: the fee leg
transfer(s, sender, recipient, amount) ==
    IF amount = 0
    THEN Outcome(s, Err("InvalidZeroAmount"))
    ELSE IF s.balances[sender] < amount
    THEN Outcome(s, Err("Overflow"))
    ELSE Outcome([s EXCEPT !.balances = MoveTokens(s.balances, sender, recipient, amount)],
                 Ok(<<>>, <<>>))

\* cw20_base::contract::execute_send: the plain notify-send.  The cw20-base crate
\* is a dependency; its handlers are modelled by their order of checks and writes.
cw20_execute_send(s, sender, contract, amount, msg) ==
    IF amount = 0
    THEN Outcome(s, Err("InvalidZeroAmount"))
    ELSE IF ~addr_validate(contract)
    THEN Outcome(s, Err("InvalidAddress"))
    ELSE IF s.balances[sender] < amount
    THEN Outcome(s, Err("Overflow"))
    ELSE Outcome([s EXCEPT !.balances = MoveTokens(s.balances, sender, contract, amount)],
                 Ok(<< <<"action", "send">>, <<"from", sender>>, <<"to", contract>>,
                       <<"amount", ToString(amount)>> >>,
                    << Cw20ReceiveMsg(contract, sender, amount, msg) >>))

\* cw20_base::contract::execute_transfer
cw20_execute_transfer(s, sender, recipient, amount) ==
    IF amount = 0
    THEN Outcome(s, Err("InvalidZeroAmount"))
    ELSE IF ~addr_validate(recipient)
    THEN Outcome(s, Err("InvalidAddress"))
    ELSE IF s.balances[sender] < amount
    THEN Outcome(s, Err("Overflow"))
    ELSE Outcome([s EXCEPT !.balances = MoveTokens(s.balances, sender, recipient, amount)],
                 Ok(<< <<"action", "transfer">>, <<"from", sender>>, <<"to", recipient>>,
                       <<"amount", ToString(amount)>> >>, <<>>))

\* cw20_base::contract::execute_burn: the sender's balance, then the total supply
cw20_execute_burn(s, sender, amount) ==
    IF amount = 0
    THEN Outcome(s, Err("InvalidZeroAmount"))
    ELSE IF s.balances[sender] < amount
    THEN Outcome(s, Err("Overflow"))
    ELSE Outcome([s EXCEPT !.balances[sender] = @ - amount,
                           !.token_info.total_supply = @ - amount],
                 Ok(<< <<"action", "burn">>, <<"from", sender>>,
                       <<"amount", ToString(amount)>> >>, <<>>))

\* cw20_base::contract::execute_mint: only the minter, and only up to the cap; the
\* total supply is saved, then the recipient is validated and credited
cw20_execute_mint(s, sender, recipient, amount) ==
    IF amount = 0
    THEN Outcome(s, Err("InvalidZeroAmount"))
    ELSE IF s.token_info.mint = None \/ s.token_info.mint[1].minter # sender
    THEN Outcome(s, Err("Unauthorized"))
    ELSE IF /\ s.token_info.mint[1].cap # None
            /\ s.token_info.total_supply + amount > s.token_info.mint[1].cap[1]
    THEN Outcome(s, Err("CannotExceedCap"))
    ELSE LET saved == [s EXCEPT !.token_info.total_supply = @ + amount]
         IN  IF ~addr_validate(recipient)
             THEN Outcome(saved, Err("InvalidAddress"))
             ELSE Outcome([saved EXCEPT !.balances[recipient] = @ + amount],
                          Ok(<< <<"action", "mint">>, <<"to", recipient>>,
                                <<"amount", ToString(amount)>> >>, <<>>))

\* cw20_base::allowances::deduct_allowance: ALLOWANCES.update on (owner, spender)
deduct_allowance(s, owner, spender, amount) ==
    LET current == s.allowances[<<owner, spender>>]
    IN  IF current = None
        THEN Outcome(s, Err("NoAllowance"))
        ELSE IF is_expired(current[1].expires)
        THEN Outcome(s, Err("Expired"))
        ELSE IF current[1].allowance < amount
        THEN Outcome(s, Err("Overflow"))
        ELSE Outcome([s EXCEPT !.allowances[<<owner, spender>>] =
                         Some([current[1] EXCEPT !.allowance = @ - amount])],
                     Ok(<<>>, <<>>))

\* cw20_base::allowances::execute_send_from: the plain delegated notify-send.
\* The allowance is written before the owner's balance is checked, and an amount
\* of 0 is not refused.
cw20_execute_send_from(s, sender, owner, contract, amount, msg) ==
    IF ~addr_validate(contract) \/ ~addr_validate(owner)
    THEN Outcome(s, Err("InvalidAddress"))
    ELSE LET d == deduct_allowance(s, owner, sender, amount)
         IN  IF ~d.result.ok
             THEN d
             ELSE IF d.storage.balances[owner] < amount
             THEN Outcome(d.storage, Err("Overflow"))
             ELSE Outcome([d.storage EXCEPT !.balances =
                              MoveTokens(d.storage.balances, owner, contract, amount)],
                          Ok(<< <<"action", "send_from">>, <<"from", owner>>,
                                <<"to", contract>>, <<"by", sender>>,
                                <<"amount", ToString(amount)>> >>,
                             << Cw20ReceiveMsg(contract, sender, amount, msg) >>))

\* cw20_base::allowances::execute_transfer_from: the plain delegated transfer
cw20_execute_transfer_from(s, sender, owner, recipient, amount) ==
    IF ~addr_validate(recipient) \/ ~addr_validate(owner)
    THEN Outcome(s, Err("InvalidAddress"))
    ELSE LET d == deduct_allowance(s, owner, sender, amount)
         IN  IF ~d.result.ok
             THEN d
             ELSE IF d.storage.balances[owner] < amount
             THEN Outcome(d.storage, Err("Overflow"))
             ELSE Outcome([d.storage EXCEPT !.balances =
                              MoveTokens(d.storage.balances, owner, recipient, amount)],
                          Ok(<< <<"action", "transfer_from">>, <<"from", owner>>,
                                <<"to", recipient>>, <<"by", sender>>,
                                <<"amount", ToString(amount)>> >>, <<>>))

\* cw20_base::allowances::execute_burn_from: the allowance, the owner's balance,
\* then the total supply
cw20_execute_burn_from(s, sender, owner, amount) ==
    IF ~addr_validate(owner)
    THEN Outcome(s, Err("InvalidAddress"))
    ELSE LET d == deduct_allowance(s, owner, sender, amount)
         IN  IF ~d.result.ok
             THEN d
             ELSE IF d.storage.balances[owner] < amount
             THEN Outcome(d.storage, Err("Overflow"))
             ELSE Outcome([d.storage EXCEPT !.balances[owner] = @ - amount,
                                            !.token_info.total_supply = @ - amount],
                          Ok(<< <<"action", "burn_from">>, <<"from", owner>>,
                                <<"by", sender>>, <<"amount", ToString(amount)>> >>,
                             <<>>))

----------------------------------------------------------------------------
(* The fee *)

\* from_binary::<Cw20HookMsg>(msg)
from_binary(msg) ==
    IF msg = SwapMsg THEN Some("Swap")
    ELSE IF msg = "withdraw_liquidity" THEN Some("WithdrawLiquidity")
    ELSE None

\* is_swap_message taking every hook that decodes for the swap hook
is_swap_message_any_hook(msg) == from_binary(msg) # None

is_swap_message(msg) == from_binary(msg) = Some("Swap")

\* Uint128 * Decimal: amount * atomics / DECIMAL_FRACTIONAL, truncated.  The
\* product is taken in 256 bits and the quotient panics above Uint128::MAX, before
\* any write; no amount and percentage that the handlers are given below come near it.
MulDecimal(amount, dec) == (amount * dec) \div DECIMAL_FRACTIONAL

\* Uint128::MAX
UINT128_MAX == 2 ^ UintBits - 1

\* Uint128 * Decimal panics ("multiplication overflow") when the quotient does not
\* fit Uint128
MulDecimalOverflows(amount, dec) == MulDecimal(amount, dec) > UINT128_MAX

\* calculate_fee_amount with the enable flag not looked at
calculate_fee_amount_flag_ignored(amount, msg, cfg) ==
    IF is_swap_message(msg)
    THEN MulDecimal(amount, cfg.swap_percent_fee) \div 100
    ELSE 0

calculate_fee_amount(amount, msg, cfg) ==
    IF cfg.enable_swap_fee /\ is_swap_message(msg)
    THEN MulDecimal(amount, cfg.swap_percent_fee) \div 100
    ELSE 0

\* what a call of calculate_fee_amount does: it returns a Uint128 or it panics
Returned(value) == [panicked |-> FALSE, value |-> value]
Panicked == [panicked |-> TRUE, value |-> 0]

calculate_fee_amount_call(amount, msg, cfg) ==
    IF /\ cfg.enable_swap_fee
       /\ is_swap_message(msg)
       /\ MulDecimalOverflows(amount, cfg.swap_percent_fee)
    THEN Panicked
    ELSE Returned(calculate_fee_amount(amount, msg, cfg))

----------------------------------------------------------------------------
(* The handlers of this contract *)

SendAttributes(sender, contract, amount, fee_amount) ==
    << <<"action", "send">>, <<"from", sender>>, <<"to", contract>>,
       <<"amount", ToString(amount)>>, <<"fee_amount", ToString(fee_amount)>> >>

\* the attributes with the amount left after the fee in place of the gross amount
SendFromAttributes_net_amount(sender, owner, contract, amount, fee_amount) ==
    << <<"action", "send_from">>, <<"from", owner>>, <<"to", contract>>,
       <<"by", sender>>, <<"amount", ToString(amount - fee_amount)>>,
       <<"fee_amount", ToString(fee_amount)>> >>

SendFromAttributes(sender, owner, contract, amount, fee_amount) ==
    << <<"action", "send_from">>, <<"from", owner>>, <<"to", contract>>,
       <<"by", sender>>, <<"amount", ToString(amount)>>, <<"fee_amount", ToString(fee_amount)>> >>

\* amount.sub(fee_amount) panics when fee_amount > amount
SubPanics(amount, fee_amount) == fee_amount > amount

\* execute_send building its own response, fee_amount and all, when no fee is due
execute_send_always_reports_fee(s, sender, contract, amount, msg) ==
    LET fee_amount == IF s.swap_fee_config = None THEN 0
                      ELSE calculate_fee_amount(amount, msg, s.swap_fee_config[1])
        t == IF fee_amount = 0 THEN Outcome(s, Ok(<<>>, <<>>))
             ELSE transfer(s, sender, s.swap_fee_config[1].fee_receiver, fee_amount)
    IN  IF ~t.result.ok
        THEN t
        ELSE IF SubPanics(amount, fee_amount)
        THEN Outcome(t.storage, Err("Panic"))
        ELSE LET res == cw20_execute_send(t.storage, sender, contract,
                                          amount - fee_amount, msg)
             IN  IF ~res.result.ok
                 THEN res
                 ELSE Outcome(res.storage,
                              Ok(SendAttributes(sender, contract, amount, fee_amount),
                                 res.result.messages))

\* execute_send paying the fee to the policy's fee_admin
execute_send_fee_to_admin(s, sender, contract, amount, msg) ==
    LET fee_amount == IF s.swap_fee_config = None THEN 0
                      ELSE calculate_fee_amount(amount, msg, s.swap_fee_config[1])
    IN  IF fee_amount # 0
        THEN LET t == transfer(s, sender, s.swap_fee_config[1].fee_admin, fee_amount)
             IN  IF ~t.result.ok
                 THEN t
                 ELSE IF SubPanics(amount, fee_amount)
                 THEN Outcome(t.storage, Err("Panic"))
                 ELSE LET res == cw20_execute_send(t.storage, sender, contract,
                                                   amount - fee_amount, msg)
                      IN  IF ~res.result.ok
                          THEN res
                          ELSE Outcome(res.storage,
                                       Ok(SendAttributes(sender, contract, amount, fee_amount),
                                          res.result.messages))
        ELSE cw20_execute_send(s, sender, contract, amount, msg)

execute_send(s, sender, contract, amount, msg) ==
    LET fee_amount == IF s.swap_fee_config = None THEN 0
                      ELSE calculate_fee_amount(amount, msg, s.swap_fee_config[1])
    IN  IF fee_amount # 0
        THEN LET t == transfer(s, sender, s.swap_fee_config[1].fee_receiver, fee_amount)
             IN  IF ~t.result.ok
                 THEN t
                 ELSE IF SubPanics(amount, fee_amount)
                 THEN Outcome(t.storage, Err("Panic"))
                 ELSE LET res == cw20_execute_send(t.storage, sender, contract,
                                                   amount - fee_amount, msg)
                      IN  IF ~res.result.ok
                          THEN res
                          ELSE Outcome(res.storage,
                                       Ok(SendAttributes(sender, contract, amount, fee_amount),
                                          res.result.messages))
        ELSE cw20_execute_send(s, sender, contract, amount, msg)

\* execute_send_from with the fee taken from info.sender, as execute_send takes it
execute_send_from_fee_from_sender(s, sender, owner, contract, amount, msg) ==
    LET fee_amount == IF s.swap_fee_config = None THEN 0
                      ELSE calculate_fee_amount(amount, msg, s.swap_fee_config[1])
    IN  IF fee_amount # 0
        THEN IF ~addr_validate(owner)
             THEN Outcome(s, Err("InvalidAddress"))
             ELSE LET t == transfer(s, sender, s.swap_fee_config[1].fee_receiver, fee_amount)
                  IN  IF ~t.result.ok
                      THEN t
                      ELSE IF SubPanics(amount, fee_amount)
                      THEN Outcome(t.storage, Err("Panic"))
                      ELSE LET res == cw20_execute_send_from(t.storage, sender, owner,
                                                             contract, amount - fee_amount, msg)
                           IN  IF ~res.result.ok
                               THEN res
                               ELSE Outcome(res.storage,
                                            Ok(SendFromAttributes(sender, owner, contract,
                                                                  amount, fee_amount),
                                               res.result.messages))
        ELSE cw20_execute_send_from(s, sender, owner, contract, amount, msg)

execute_send_from(s, sender, owner, contract, amount, msg) ==
    LET fee_amount == IF s.swap_fee_config = None THEN 0
                      ELSE calculate_fee_amount(amount, msg, s.swap_fee_config[1])
    IN  IF fee_amount # 0
        THEN IF ~addr_validate(owner)
             THEN Outcome(s, Err("InvalidAddress"))
             ELSE LET t == transfer(s, owner, s.swap_fee_config[1].fee_receiver, fee_amount)
                  IN  IF ~t.result.ok
                      THEN t
                      ELSE IF SubPanics(amount, fee_amount)
                      THEN Outcome(t.storage, Err("Panic"))
                      ELSE LET res == cw20_execute_send_from(t.storage, sender, owner,
                                                             contract, amount - fee_amount, msg)
                           IN  IF ~res.result.ok
                               THEN res
                               ELSE Outcome(res.storage,
                                            Ok(SendFromAttributes(sender, owner, contract,
                                                                  amount, fee_amount),
                                               res.result.messages))
        ELSE cw20_execute_send_from(s, sender, owner, contract, amount, msg)

\* update_swap_fee_config with the comparison of fee_admin and info.sender left out
update_swap_fee_config_no_admin_check(s, sender, upd) ==
    IF s.swap_fee_config = None
    THEN Outcome(s, Err("Unauthorized"))
    ELSE LET old == s.swap_fee_config[1]
         IN  IF upd.fee_admin # None /\ ~addr_validate(upd.fee_admin[1])
             THEN Outcome(s, Err("InvalidAddress"))
             ELSE IF upd.fee_receiver # None /\ ~addr_validate(upd.fee_receiver[1])
             THEN Outcome(s, Err("InvalidAddress"))
             ELSE LET new == [fee_admin        |-> IF upd.fee_admin = None
                                                   THEN old.fee_admin ELSE upd.fee_admin[1],
                              enable_swap_fee  |-> IF upd.enable_swap_fee = None
                                                   THEN old.enable_swap_fee
                                                   ELSE upd.enable_swap_fee[1],
                              swap_percent_fee |-> IF upd.swap_percent_fee = None
                                                   THEN old.swap_percent_fee
                                                   ELSE upd.swap_percent_fee[1],
                              fee_receiver     |-> IF upd.fee_receiver = None
                                                   THEN old.fee_receiver
                                                   ELSE upd.fee_receiver[1]]
                  IN  Outcome([s EXCEPT !.swap_fee_config = Some(new)],
                              Ok(<< <<"method", "update_swap_fee_config">> >>, <<>>))

\* update_swap_fee_config that stores a policy owned by the caller when none exists
update_swap_fee_config_creates_policy(s, sender, upd) ==
    IF s.swap_fee_config = None
    THEN Outcome([s EXCEPT !.swap_fee_config =
                     Some([fee_admin |-> sender, enable_swap_fee |-> FALSE,
                           swap_percent_fee |-> 0, fee_receiver |-> sender])],
                 Ok(<< <<"method", "update_swap_fee_config">> >>, <<>>))
    ELSE LET old == s.swap_fee_config[1]
         IN  IF old.fee_admin # sender
             THEN Outcome(s, Err("Unauthorized"))
             ELSE IF upd.fee_admin # None /\ ~addr_validate(upd.fee_admin[1])
             THEN Outcome(s, Err("InvalidAddress"))
             ELSE IF upd.fee_receiver # None /\ ~addr_validate(upd.fee_receiver[1])
             THEN Outcome(s, Err("InvalidAddress"))
             ELSE LET new == [fee_admin        |-> IF upd.fee_admin = None
                                                   THEN old.fee_admin ELSE upd.fee_admin[1],
                              enable_swap_fee  |-> IF upd.enable_swap_fee = None
                                                   THEN old.enable_swap_fee
                                                   ELSE upd.enable_swap_fee[1],
                              swap_percent_fee |-> IF upd.swap_percent_fee = None
                                                   THEN old.swap_percent_fee
                                                   ELSE upd.swap_percent_fee[1],
                              fee_receiver     |-> IF upd.fee_receiver = None
                                                   THEN old.fee_receiver
                                                   ELSE upd.fee_receiver[1]]
                  IN  Outcome([s EXCEPT !.swap_fee_config = Some(new)],
                              Ok(<< <<"method", "update_swap_fee_config">> >>, <<>>))

\* update_swap_fee_config saving the record after each field it assigns
update_swap_fee_config_saves_each_field(s, sender, upd) ==
    IF s.swap_fee_config = None
    THEN Outcome(s, Err("Unauthorized"))
    ELSE LET old == s.swap_fee_config[1]
         IN  IF old.fee_admin # sender
             THEN Outcome(s, Err("Unauthorized"))
             ELSE IF upd.fee_admin # None /\ ~addr_validate(upd.fee_admin[1])
             THEN Outcome(s, Err("InvalidAddress"))
             ELSE LET partial == [fee_admin        |-> IF upd.fee_admin = None
                                                       THEN old.fee_admin
                                                       ELSE upd.fee_admin[1],
                                  enable_swap_fee  |-> IF upd.enable_swap_fee = None
                                                       THEN old.enable_swap_fee
                                                       ELSE upd.enable_swap_fee[1],
                                  swap_percent_fee |-> IF upd.swap_percent_fee = None
                                                       THEN old.swap_percent_fee
                                                       ELSE upd.swap_percent_fee[1],
                                  fee_receiver     |-> old.fee_receiver]
                  IN  IF upd.fee_receiver # None /\ ~addr_validate(upd.fee_receiver[1])
                      THEN Outcome([s EXCEPT !.swap_fee_config = Some(partial)],
                                   Err("InvalidAddress"))
                      ELSE Outcome([s EXCEPT !.swap_fee_config =
                                       Some([partial EXCEPT !.fee_receiver =
                                                IF upd.fee_receiver = None
                                                THEN old.fee_receiver
                                                ELSE upd.fee_receiver[1]])],
                                   Ok(<< <<"method", "update_swap_fee_config">> >>, <<>>))

\* update_swap_fee_config validating a supplied fee_admin without assigning it
update_swap_fee_config_keeps_admin(s, sender, upd) ==
    IF s.swap_fee_config = None
    THEN Outcome(s, Err("Unauthorized"))
    ELSE LET old == s.swap_fee_config[1]
         IN  IF old.fee_admin # sender
             THEN Outcome(s, Err("Unauthorized"))
             ELSE IF upd.fee_admin # None /\ ~addr_validate(upd.fee_admin[1])
             THEN Outcome(s, Err("InvalidAddress"))
             ELSE IF upd.fee_receiver # None /\ ~addr_validate(upd.fee_receiver[1])
             THEN Outcome(s, Err("InvalidAddress"))
             ELSE LET new == [fee_admin        |-> old.fee_admin,
                              enable_swap_fee  |-> IF upd.enable_swap_fee = None
                                                   THEN old.enable_swap_fee
                                                   ELSE upd.enable_swap_fee[1],
                              swap_percent_fee |-> IF upd.swap_percent_fee = None
                                                   THEN old.swap_percent_fee
                                                   ELSE upd.swap_percent_fee[1],
                              fee_receiver     |-> IF upd.fee_receiver = None
                                                   THEN old.fee_receiver
                                                   ELSE upd.fee_receiver[1]]
                  IN  Outcome([s EXCEPT !.swap_fee_config = Some(new)],
                              Ok(<< <<"method", "update_swap_fee_config">> >>, <<>>))

\* update_swap_fee_config with an absent enable_swap_fee read as false
update_swap_fee_config_absent_flag_false(s, sender, upd) ==
    IF s.swap_fee_config = None
    THEN Outcome(s, Err("Unauthorized"))
    ELSE LET old == s.swap_fee_config[1]
         IN  IF old.fee_admin # sender
             THEN Outcome(s, Err("Unauthorized"))
             ELSE IF upd.fee_admin # None /\ ~addr_validate(upd.fee_admin[1])
             THEN Outcome(s, Err("InvalidAddress"))
             ELSE IF upd.fee_receiver # None /\ ~addr_validate(upd.fee_receiver[1])
             THEN Outcome(s, Err("InvalidAddress"))
             ELSE LET new == [fee_admin        |-> IF upd.fee_admin = None
                                                   THEN old.fee_admin ELSE upd.fee_admin[1],
                              enable_swap_fee  |-> IF upd.enable_swap_fee = None
                                                   THEN FALSE
                                                   ELSE upd.enable_swap_fee[1],
                              swap_percent_fee |-> IF upd.swap_percent_fee = None
                                                   THEN old.swap_percent_fee
                                                   ELSE upd.swap_percent_fee[1],
                              fee_receiver     |-> IF upd.fee_receiver = None
                                                   THEN old.fee_receiver
                                                   ELSE upd.fee_receiver[1]]
                  IN  Outcome([s EXCEPT !.swap_fee_config = Some(new)],
                              Ok(<< <<"method", "update_swap_fee_config">> >>, <<>>))

\* upd: the four Option fields of ExecuteMsg::UpdateSwapFeeConfig
update_swap_fee_config(s, sender, upd) ==
    IF s.swap_fee_config = None
    THEN Outcome(s, Err("Unauthorized"))
    ELSE LET old == s.swap_fee_config[1]
         IN  IF old.fee_admin # sender
             THEN Outcome(s, Err("Unauthorized"))
             ELSE IF upd.fee_admin # None /\ ~addr_validate(upd.fee_admin[1])
             THEN Outcome(s, Err("InvalidAddress"))
             ELSE IF upd.fee_receiver # None /\ ~addr_validate(upd.fee_receiver[1])
             THEN Outcome(s, Err("InvalidAddress"))
             ELSE LET new == [fee_admin        |-> IF upd.fee_admin = None
                                                   THEN old.fee_admin ELSE upd.fee_admin[1],
                              enable_swap_fee  |-> IF upd.enable_swap_fee = None
                                                   THEN old.enable_swap_fee
                                                   ELSE upd.enable_swap_fee[1],
                              swap_percent_fee |-> IF upd.swap_percent_fee = None
                                                   THEN old.swap_percent_fee
                                                   ELSE upd.swap_percent_fee[1],
                              fee_receiver     |-> IF upd.fee_receiver = None
                                                   THEN old.fee_receiver
                                                   ELSE upd.fee_receiver[1]]
                  IN  Outcome([s EXCEPT !.swap_fee_config = Some(new)],
                              Ok(<< <<"method", "update_swap_fee_config">> >>, <<>>))

\* StdResult<SwapFeeConfigResponse>: a query returns data and writes nothing
OkData(data) ==
    [ok |-> TRUE, err |-> "", attributes |-> <<>>, messages |-> <<>>, data |-> data]

\* SwapFeeConfigResponse::default(): empty strings, false, Decimal::zero()
DefaultSwapFeeConfigResponse ==
    [fee_admin |-> "", enable_swap_fee |-> FALSE, swap_percent_fee |-> 0,
     fee_receiver |-> ""]

\* query_swap_fee_config with load in place of may_load
query_swap_fee_config_load(s) ==
    IF s.swap_fee_config = None
    THEN Err("NotFound")
    ELSE OkData([fee_admin        |-> s.swap_fee_config[1].fee_admin,
                 enable_swap_fee  |-> s.swap_fee_config[1].enable_swap_fee,
                 swap_percent_fee |-> s.swap_fee_config[1].swap_percent_fee,
                 fee_receiver     |-> s.swap_fee_config[1].fee_receiver])

\* Addr::to_string gives the text the address was validated from
query_swap_fee_config(s) ==
    IF s.swap_fee_config = None
    THEN OkData(DefaultSwapFeeConfigResponse)
    ELSE OkData([fee_admin        |-> s.swap_fee_config[1].fee_admin,
                 enable_swap_fee  |-> s.swap_fee_config[1].enable_swap_fee,
                 swap_percent_fee |-> s.swap_fee_config[1].swap_percent_fee,
                 fee_receiver     |-> s.swap_fee_config[1].fee_receiver])

\* cw20_base::allowances::execute_increase_allowance
cw20_execute_increase_allowance(s, sender, spender, amount, expires) ==
    IF ~addr_validate(spender)
    THEN Outcome(s, Err("InvalidAddress"))
    ELSE IF spender = sender
    THEN Outcome(s, Err("CannotSetOwnAccount"))
    ELSE LET current == s.allowances[<<sender, spender>>]
             val == IF current = None THEN [allowance |-> 0, expires |-> Never]
                    ELSE current[1]
             new == [allowance |-> val.allowance + amount,
                     expires   |-> IF expires = None THEN val.expires ELSE expires[1]]
         IN  Outcome([s EXCEPT !.allowances[<<sender, spender>>] = Some(new)],
                     Ok(<< <<"action", "increase_allowance">>, <<"owner", sender>>,
                           <<"spender", spender>>, <<"amount", ToString(amount)>> >>, <<>>))

\* cw20_base::allowances::execute_decrease_allowance: ALLOWANCES.load fails on a
\* missing entry; an amount that reaches the allowance removes the entry
cw20_execute_decrease_allowance(s, sender, spender, amount, expires) ==
    IF ~addr_validate(spender)
    THEN Outcome(s, Err("InvalidAddress"))
    ELSE IF spender = sender
    THEN Outcome(s, Err("CannotSetOwnAccount"))
    ELSE LET current == s.allowances[<<sender, spender>>]
         IN  IF current = None
             THEN Outcome(s, Err("NotFound"))
             ELSE LET new == IF amount < current[1].allowance
                             THEN Some([allowance |-> current[1].allowance - amount,
                                        expires   |-> IF expires = None
                                                      THEN current[1].expires
                                                      ELSE expires[1]])
                             ELSE None
                  IN  Outcome([s EXCEPT !.allowances[<<sender, spender>>] = new],
                              Ok(<< <<"action", "decrease_allowance">>,
                                    <<"owner", sender>>, <<"spender", spender>>,
                                    <<"amount", ToString(amount)>> >>, <<>>))

----------------------------------------------------------------------------
(* The entry point *)

\* ExecuteMsg, one record per variant
TransferMsg(recipient, amount) ==
    [type |-> "Transfer", recipient |-> recipient, amount |-> amount]
BurnMsg(amount) == [type |-> "Burn", amount |-> amount]
SendMsg(contract, amount, msg) ==
    [type |-> "Send", contract |-> contract, amount |-> amount, msg |-> msg]
MintMsg(recipient, amount) ==
    [type |-> "Mint", recipient |-> recipient, amount |-> amount]
IncreaseAllowanceMsg(spender, amount, expires) ==
    [type |-> "IncreaseAllowance", spender |-> spender, amount |-> amount,
     expires |-> expires]
DecreaseAllowanceMsg(spender, amount, expires) ==
    [type |-> "DecreaseAllowance", spender |-> spender, amount |-> amount,
     expires |-> expires]
TransferFromMsg(owner, recipient, amount) ==
    [type |-> "TransferFrom", owner |-> owner, recipient |-> recipient,
     amount |-> amount]
BurnFromMsg(owner, amount) == [type |-> "BurnFrom", owner |-> owner, amount |-> amount]
SendFromMsg(owner, contract, amount, msg) ==
    [type |-> "SendFrom", owner |-> owner, contract |-> contract, amount |-> amount,
     msg |-> msg]
UpdateSwapFeeConfigMsg(upd) == [type |-> "UpdateSwapFeeConfig", upd |-> upd]

\* a transfer that pays the swap fee of the stored policy, as a swap Send does
transfer_with_fee(s, sender, recipient, amount) ==
    LET fee_amount == IF s.swap_fee_config = None THEN 0
                      ELSE calculate_fee_amount(amount, SwapMsg, s.swap_fee_config[1])
    IN  IF fee_amount # 0
        THEN LET t == transfer(s, sender, s.swap_fee_config[1].fee_receiver, fee_amount)
             IN  IF ~t.result.ok
                 THEN t
                 ELSE IF SubPanics(amount, fee_amount)
                 THEN Outcome(t.storage, Err("Panic"))
                 ELSE cw20_execute_transfer(t.storage, sender, recipient,
                                            amount - fee_amount)
        ELSE cw20_execute_transfer(s, sender, recipient, amount)

\* execute with the Transfer arm routed through the fee
execute_fee_on_transfer(s, sender, msg) ==
    CASE msg.type = "Transfer" ->
           transfer_with_fee(s, sender, msg.recipient, msg.amount)
      [] msg.type = "Burn" ->
           cw20_execute_burn(s, sender, msg.amount)
      [] msg.type = "Send" ->
           execute_send(s, sender, msg.contract, msg.amount, msg.msg)
      [] msg.type = "Mint" ->
           cw20_execute_mint(s, sender, msg.recipient, msg.amount)
      [] msg.type = "IncreaseAllowance" ->
           cw20_execute_increase_allowance(s, sender, msg.spender, msg.amount, msg.expires)
      [] msg.type = "DecreaseAllowance" ->
           cw20_execute_decrease_allowance(s, sender, msg.spender, msg.amount, msg.expires)
      [] msg.type = "TransferFrom" ->
           cw20_execute_transfer_from(s, sender, msg.owner, msg.recipient, msg.amount)
      [] msg.type = "BurnFrom" ->
           cw20_execute_burn_from(s, sender, msg.owner, msg.amount)
      [] msg.type = "SendFrom" ->
           execute_send_from(s, sender, msg.owner, msg.contract, msg.amount, msg.msg)
      [] msg.type = "UpdateSwapFeeConfig" ->
           update_swap_fee_config(s, sender, msg.upd)

\* fn execute: info.sender and the message; each arm calls one handler
execute(s, sender, msg) ==
    CASE msg.type = "Transfer" ->
           cw20_execute_transfer(s, sender, msg.recipient, msg.amount)
      [] msg.type = "Burn" ->
           cw20_execute_burn(s, sender, msg.amount)
      [] msg.type = "Send" ->
           execute_send(s, sender, msg.contract, msg.amount, msg.msg)
      [] msg.type = "Mint" ->
           cw20_execute_mint(s, sender, msg.recipient, msg.amount)
      [] msg.type = "IncreaseAllowance" ->
           cw20_execute_increase_allowance(s, sender, msg.spender, msg.amount, msg.expires)
      [] msg.type = "DecreaseAllowance" ->
           cw20_execute_decrease_allowance(s, sender, msg.spender, msg.amount, msg.expires)
      [] msg.type = "TransferFrom" ->
           cw20_execute_transfer_from(s, sender, msg.owner, msg.recipient, msg.amount)
      [] msg.type = "BurnFrom" ->
           cw20_execute_burn_from(s, sender, msg.owner, msg.amount)
      [] msg.type = "SendFrom" ->
           execute_send_from(s, sender, msg.owner, msg.contract, msg.amount, msg.msg)
      [] msg.type = "UpdateSwapFeeConfig" ->
           update_swap_fee_config(s, sender, msg.upd)

----------------------------------------------------------------------------
(* The messages the model sends *)

\* info.sender of Send
Senders == {"owner", "fee_receiver"}

\* the `contract` argument of Send and SendFrom
Contracts == {"dex_contract", "fee_receiver", "owner", MalformedAddr}

\* info.sender of SendFrom, and its `owner` argument
Executors == {"sender"}
Owners == {"owner"}

\* the `spender` argument of IncreaseAllowance
Spenders == {"sender"}

\* the (owner, spender) keys of ALLOWANCES that these messages can read or write
AllowanceKeys == Owners \X Executors

\* info.sender and `recipient` of Transfer
TransferSenders == {"owner"}
TransferRecipients == {"sender", MalformedAddr}

\* `recipient` of TransferFrom; its info.sender and `owner` are those of SendFrom
TransferFromRecipients == {"dex_contract"}

\* InstantiateMsg.mint: the minter, with the initial supply as its cap
Minter == "owner"
MinterData == [minter |-> Minter, cap |-> Some(MaxSupply)]

\* info.sender and `recipient` of Mint, info.sender of Burn; Mint and Burn are
\* called with nothing or with the whole initial supply
MintCallers == {Minter, "sender"}
MintRecipients == {"owner"}
Burners == {"owner"}
SupplyAmounts == {0, MaxSupply}

\* identities that hold fee_admin, and the callers of UpdateSwapFeeConfig: whoever
\* is the fee_admin, the other caller is not
Admins == {"sender", "fee_receiver"}
UpdateCallers == Admins

\* identities that hold fee_receiver at instantiate; UpdateSwapFeeConfig moves it on
Receivers == {"fee_receiver", "owner"}

Option(S) == {None} \cup {Some(x) : x \in S}

\* the values UpdateSwapFeeConfig is called with
UpdateAdmins == {"fee_receiver"}
UpdatePercents == {DecimalPercent(100), DecimalPercent(200)}
UpdateReceivers == {"dex_contract"}

Updates ==
    [fee_admin        : Option(UpdateAdmins \cup {MalformedAddr}),
     enable_swap_fee  : Option(BOOLEAN),
     swap_percent_fee : Option(UpdatePercents),
     fee_receiver     : Option(UpdateReceivers \cup {MalformedAddr})]

NoUpdate ==
    [fee_admin |-> None, enable_swap_fee |-> None, swap_percent_fee |-> None,
     fee_receiver |-> None]

SwapFeeConfigs ==
    [fee_admin : Admins, enable_swap_fee : BOOLEAN, swap_percent_fee : Percents,
     fee_receiver : Receivers]

RECURSIVE Sum(_, _)
Sum(f, S) == IF S = {} THEN 0
             ELSE LET x == CHOOSE y \in S : TRUE IN f[x] + Sum(f, S \ {x})

----------------------------------------------------------------------------
(* The state machine *)

Idle == [op |-> "none"]

CurrentStorage == Storage(balances, allowances, swap_fee_config, token_info)

\* execute() answers one message: the storage becomes what the handler left,
\* `last` keeps the request, the storage it ran on and its Result
Answer(op, sender, owner, contract, amount, msg, upd, out) ==
    /\ balances' = out.storage.balances
    /\ allowances' = out.storage.allowances
    /\ swap_fee_config' = out.storage.swap_fee_config
    /\ token_info' = out.storage.token_info
    /\ replaced_receiver' =
           IF /\ op = "update_swap_fee_config"
              /\ out.result.ok
              /\ swap_fee_config # None
              /\ out.storage.swap_fee_config[1].fee_receiver
                     # swap_fee_config[1].fee_receiver
           THEN Some(swap_fee_config[1].fee_receiver)
           ELSE replaced_receiver
    /\ last' = [op |-> op, sender |-> sender, owner |-> owner, contract |-> contract,
                amount |-> amount, msg |-> msg, upd |-> upd,
                pre |-> CurrentStorage, result |-> out.result]

\* fn instantiate: create_accounts(initial_balances) and its total, the token info,
\* then the optional policy
Init ==
    /\ balances \in {b \in [Addrs -> Amounts] : Sum(b, Addrs) = MaxSupply}
    /\ token_info = [total_supply |-> Sum(balances, Addrs), mint |-> Some(MinterData)]
    /\ allowances = [p \in AllowanceKeys |-> None]
    /\ swap_fee_config \in Option(SwapFeeConfigs)
    /\ replaced_receiver = None
    /\ last = Idle

Send ==
    /\ last = Idle
    /\ \E sender \in Senders, contract \in Contracts, amount \in Amounts, msg \in Payloads :
         Answer("send", sender, sender, contract, amount, msg, NoUpdate,
                execute(CurrentStorage, sender, SendMsg(contract, amount, msg)))

SendFrom ==
    /\ last = Idle
    /\ \E sender \in Executors, owner \in Owners, contract \in Contracts,
          amount \in Amounts, msg \in Payloads :
         Answer("send_from", sender, owner, contract, amount, msg, NoUpdate,
                execute(CurrentStorage, sender, SendFromMsg(owner, contract, amount, msg)))

UpdateSwapFeeConfig ==
    /\ last = Idle
    /\ \E sender \in UpdateCallers, upd \in Updates :
         Answer("update_swap_fee_config", sender, sender, "", 0, "", upd,
                execute(CurrentStorage, sender, UpdateSwapFeeConfigMsg(upd)))

\* the allowance is capped at MaxSupply
IncreaseAllowance ==
    /\ last = Idle
    /\ \E sender \in Owners, spender \in Spenders, amount \in Amounts,
          expires \in Option(Expirations) :
         /\ IF allowances[<<sender, spender>>] = None THEN TRUE
            ELSE allowances[<<sender, spender>>][1].allowance + amount <= MaxSupply
         /\ Answer("increase_allowance", sender, sender, spender, amount, "", NoUpdate,
                   execute(CurrentStorage, sender,
                           IncreaseAllowanceMsg(spender, amount, expires)))

DecreaseAllowance ==
    /\ last = Idle
    /\ \E sender \in Owners, spender \in Spenders, amount \in Amounts,
          expires \in Option(Expirations) :
         Answer("decrease_allowance", sender, sender, spender, amount, "", NoUpdate,
                execute(CurrentStorage, sender,
                        DecreaseAllowanceMsg(spender, amount, expires)))

Transfer ==
    /\ last = Idle
    /\ \E sender \in TransferSenders, recipient \in TransferRecipients, amount \in Amounts :
         Answer("transfer", sender, sender, recipient, amount, "", NoUpdate,
                execute(CurrentStorage, sender, TransferMsg(recipient, amount)))

TransferFrom ==
    /\ last = Idle
    /\ \E sender \in Executors, owner \in Owners, recipient \in TransferFromRecipients,
          amount \in Amounts :
         Answer("transfer_from", sender, owner, recipient, amount, "", NoUpdate,
                execute(CurrentStorage, sender, TransferFromMsg(owner, recipient, amount)))

Mint ==
    /\ last = Idle
    /\ \E sender \in MintCallers, recipient \in MintRecipients, amount \in SupplyAmounts :
         Answer("mint", sender, sender, recipient, amount, "", NoUpdate,
                execute(CurrentStorage, sender, MintMsg(recipient, amount)))

Burn ==
    /\ last = Idle
    /\ \E sender \in Burners, amount \in SupplyAmounts :
         Answer("burn", sender, sender, "", amount, "", NoUpdate,
                execute(CurrentStorage, sender, BurnMsg(amount)))

BurnFrom ==
    /\ last = Idle
    /\ \E sender \in Executors, owner \in Owners, amount \in SupplyAmounts :
         Answer("burn_from", sender, owner, "", amount, "", NoUpdate,
                execute(CurrentStorage, sender, BurnFromMsg(owner, amount)))

\* fn query, QueryMsg::SwapFeeConfig: it holds Deps, which cannot write
QuerySwapFeeConfig ==
    /\ last = Idle
    /\ Answer("query_swap_fee_config", "", "", "", 0, "", NoUpdate,
              Outcome(CurrentStorage, query_swap_fee_config(CurrentStorage)))

\* the Result is handed back and the next message can be taken
Respond ==
    /\ last # Idle
    /\ last' = Idle
    /\ UNCHANGED <<balances, allowances, swap_fee_config, token_info, replaced_receiver>>

Next ==
    \/ Send \/ SendFrom \/ UpdateSwapFeeConfig
    \/ IncreaseAllowance \/ DecreaseAllowance
    \/ Transfer \/ TransferFrom \/ Mint \/ Burn \/ BurnFrom
    \/ QuerySwapFeeConfig
    \/ Respond

Spec == Init /\ [][Next]_vars

----------------------------------------------------------------------------
(* Reading the answered message *)

IsSend == last.op \in {"send", "send_from"}

\* the account the tokens are taken from: info.sender of Send, owner of SendFrom
Payer == last.owner

AttrValues(attributes, key) ==
    {attributes[i][2] : i \in {j \in DOMAIN attributes : attributes[j][1] = key}}

\* a successful Send or SendFrom whose response reports a fee
FeeCollected ==
    /\ IsSend
    /\ last.result.ok
    /\ AttrValues(last.result.attributes, "fee_amount") # {}

\* the fee the response reports, as a number
ReportedFee ==
    CHOOSE n \in Amounts : ToString(n) \in AttrValues(last.result.attributes, "fee_amount")

\* the balances after `payer` paid fee + principal, `receiver` got the fee and
\* `contract` got the principal
NetFlow(b, payer, receiver, contract, fee, principal) ==
    [a \in Addrs |->
        b[a] - (IF a = payer THEN fee + principal ELSE 0)
             + (IF a = receiver THEN fee ELSE 0)
             + (IF a = contract THEN principal ELSE 0)]

PreReceiver == last.pre.swap_fee_config[1].fee_receiver

----------------------------------------------------------------------------
(* C1 *)

\* C1, as stated: after every successful Send or SendFrom that collects a fee,
\* whatever the payer, fee receiver and recipient are, the payer has lost
\* fee + principal, the fee receiver has gained the fee and the recipient has
\* gained the principal.
C1_ConservationAnyIdentities ==
    FeeCollected =>
        LET fee == ReportedFee
            principal == last.amount - fee
        IN  /\ last.pre.balances[Payer] = balances[Payer] + fee + principal
            /\ balances[PreReceiver] = last.pre.balances[PreReceiver] + fee
            /\ balances[last.contract] = last.pre.balances[last.contract] + principal

\* C1, amended: after every successful Send or SendFrom that collects a fee, every
\* account's balance has changed by the net of the legs it takes part in
\* (- fee - principal as payer, + fee as fee receiver, + principal as recipient);
\* the three equations of the claim hold when the three identities are distinct.
C1_Conservation ==
    FeeCollected =>
        LET fee == ReportedFee
            principal == last.amount - fee
        IN  /\ fee > 0
            /\ principal >= 0
            /\ balances = NetFlow(last.pre.balances, Payer, PreReceiver, last.contract,
                                  fee, principal)
            /\ Cardinality({Payer, PreReceiver, last.contract}) = 3 =>
                   /\ last.pre.balances[Payer] = balances[Payer] + fee + principal
                   /\ balances[PreReceiver] = last.pre.balances[PreReceiver] + fee
                   /\ balances[last.contract] =
                          last.pre.balances[last.contract] + principal

\* a fee was collected from a payer that is neither the fee receiver nor the recipient
C1_Witness ==
    /\ FeeCollected
    /\ Cardinality({Payer, PreReceiver, last.contract}) = 3
    /\ last.amount - ReportedFee > 0

----------------------------------------------------------------------------
(* C2 *)

\* C2: whenever Send or SendFrom returns an error, every balance, every allowance
\* and the stored policy are as they were before the request.
C2_AllOrNothing ==
    (IsSend /\ ~last.result.ok) => CurrentStorage = last.pre

----------------------------------------------------------------------------
(* C3 *)

PreAllowance(owner, spender) ==
    IF last.pre.allowances[<<owner, spender>>] = None THEN 0
    ELSE last.pre.allowances[<<owner, spender>>][1].allowance

\* C3: a successful SendFrom never reduces the owner's balance by more than the
\* allowance the executor held from that owner immediately before the call.
C3_OwnerLosesAtMostAllowance ==
    (last.op = "send_from" /\ last.result.ok) =>
        last.pre.balances[last.owner] - balances[last.owner]
            <= PreAllowance(last.owner, last.sender)

----------------------------------------------------------------------------
(* C4 *)

\* C4: under every policy that instantiate or UpdateSwapFeeConfig has stored, the
\* fee computed for a Send or SendFrom of any amount and payload is within
\* 0..amount, so amount - fee never underflows.
C4_FeeBound ==
    swap_fee_config # None =>
        \A amount \in Amounts, msg \in Payloads :
            /\ calculate_fee_amount(amount, msg, swap_fee_config[1]) >= 0
            /\ calculate_fee_amount(amount, msg, swap_fee_config[1]) <= amount

----------------------------------------------------------------------------
(* C5 *)

\* C5: in a successful SendFrom that collects a fee, the fee is taken from the
\* owner and not from the executor (the executor's balance changes only by what it
\* receives as fee receiver or as recipient), the fee receiver is credited the fee,
\* and the executor's allowance from the owner is reduced by exactly
\* principal = amount - fee, its expiration unchanged.
C5_SendFromFeeFromOwner ==
    (last.op = "send_from" /\ FeeCollected) =>
        LET fee == ReportedFee
            principal == last.amount - fee
            before == last.pre.allowances[<<last.owner, last.sender>>]
            after == allowances[<<last.owner, last.sender>>]
        IN  /\ fee > 0
            /\ last.sender # last.owner
            /\ balances[last.sender] =
                   last.pre.balances[last.sender]
                     + (IF last.sender = PreReceiver THEN fee ELSE 0)
                     + (IF last.sender = last.contract THEN principal ELSE 0)
            /\ balances[last.owner] =
                   last.pre.balances[last.owner] - last.amount
                     + (IF last.owner = PreReceiver THEN fee ELSE 0)
                     + (IF last.owner = last.contract THEN principal ELSE 0)
            /\ PreReceiver \notin {last.owner, last.contract} =>
                   balances[PreReceiver] = last.pre.balances[PreReceiver] + fee
            /\ before # None /\ after # None
            /\ after[1].allowance = before[1].allowance - principal
            /\ after[1].expires = before[1].expires
            /\ \A p \in AllowanceKeys :
                   p # <<last.owner, last.sender>> =>
                       allowances[p] = last.pre.allowances[p]

\* the scenario of the claim, scaled: an allowance equal to the amount, a fee, and
\* an allowance of exactly the fee left over; the executor holds tokens of its own
\* and is neither the fee receiver nor the recipient
C5_Witness ==
    /\ last.op = "send_from"
    /\ FeeCollected
    /\ PreAllowance(last.owner, last.sender) = last.amount
    /\ allowances[<<last.owner, last.sender>>][1].allowance = ReportedFee
    /\ last.sender \notin {PreReceiver, last.contract}
    /\ PreReceiver \notin {last.owner, last.contract}
    /\ last.pre.balances[last.sender] > 0

----------------------------------------------------------------------------
(* C6 *)

\* the caller of the answered UpdateSwapFeeConfig was not entitled to it: no policy
\* was stored, or the caller was not the stored fee_admin
NotFeeAdmin ==
    \/ last.pre.swap_fee_config = None
    \/ last.pre.swap_fee_config[1].fee_admin # last.sender

\* C6: UpdateSwapFeeConfig called by anyone but the stored fee_admin, or with no
\* policy stored, fails with Unauthorized and leaves the stored policy (and the rest
\* of the storage) unchanged, whichever fields are present, well-formed or not.
C6_AuthorizationGate ==
    (last.op = "update_swap_fee_config" /\ NotFeeAdmin) =>
        /\ last.result = Err("Unauthorized")
        /\ swap_fee_config = last.pre.swap_fee_config
        /\ CurrentStorage = last.pre

\* a caller that is not the fee_admin of the stored policy asked for all four
\* fields to change, naming itself as the new fee_admin
C6_Witness ==
    /\ last.op = "update_swap_fee_config"
    /\ last.pre.swap_fee_config # None
    /\ NotFeeAdmin
    /\ last.upd.fee_admin = Some(last.sender)
    /\ last.upd.enable_swap_fee # None
    /\ last.upd.swap_percent_fee # None
    /\ last.upd.fee_receiver # None
    /\ ~last.result.ok

----------------------------------------------------------------------------
(* C7 *)

\* what the plain primitive of cw20-base does with the answered request
PlainOutcome(s) ==
    IF last.op = "send"
    THEN cw20_execute_send(s, last.sender, last.contract, last.amount, last.msg)
    ELSE cw20_execute_send_from(s, last.sender, last.owner, last.contract,
                                last.amount, last.msg)

\* C7: with no policy stored, Send and SendFrom leave the storage and return the
\* Result that the plain send and send_from primitives leave and return, for every
\* input and prior state; the response has no fee_amount attribute.
C7_NoPolicyPassthrough ==
    (IsSend /\ last.pre.swap_fee_config = None) =>
        /\ CurrentStorage = PlainOutcome(last.pre).storage
        /\ last.result = PlainOutcome(last.pre).result
        /\ AttrValues(last.result.attributes, "fee_amount") = {}

\* a swap payload was sent successfully while no policy was stored
C7_Witness ==
    /\ IsSend
    /\ last.pre.swap_fee_config = None
    /\ last.msg = SwapMsg
    /\ last.result.ok
    /\ balances # last.pre.balances

----------------------------------------------------------------------------
(* C8 *)

\* what the contract does with the answered request on storage s
HandlerOutcome(s) ==
    IF last.op = "send"
    THEN execute_send(s, last.sender, last.contract, last.amount, last.msg)
    ELSE execute_send_from(s, last.sender, last.owner, last.contract,
                           last.amount, last.msg)

\* C8: with a stored policy whose enable_swap_fee is false, Send and SendFrom end
\* as they end on the same storage with no policy: the same Result, the same
\* balances and allowances, the policy untouched, no fee credited (the fee
\* receiver's balance moves only as a party of the plain send).
C8_DisabledPassthrough ==
    (IsSend /\ last.pre.swap_fee_config # None
            /\ ~last.pre.swap_fee_config[1].enable_swap_fee) =>
        LET out == HandlerOutcome([last.pre EXCEPT !.swap_fee_config = None])
        IN  /\ last.result = out.result
            /\ balances = out.storage.balances
            /\ allowances = out.storage.allowances
            /\ swap_fee_config = last.pre.swap_fee_config
            /\ AttrValues(last.result.attributes, "fee_amount") = {}
            /\ last.result.ok =>
                   balances = NetFlow(last.pre.balances, Payer, PreReceiver,
                                      last.contract, 0, last.amount)
            /\ PreReceiver \notin {Payer, last.contract} =>
                   balances[PreReceiver] = last.pre.balances[PreReceiver]

\* a swap payload for an amount the percentage would tax was sent successfully
\* under a disabled policy
C8_Witness ==
    /\ IsSend
    /\ last.pre.swap_fee_config # None
    /\ ~last.pre.swap_fee_config[1].enable_swap_fee
    /\ last.msg = SwapMsg
    /\ last.result.ok
    /\ MulDecimal(last.amount, last.pre.swap_fee_config[1].swap_percent_fee) \div 100 > 0
    /\ PreReceiver \notin {Payer, last.contract}

----------------------------------------------------------------------------
(* C9 *)

\* the policy is stored and enabled and the fee of the answered request is 0: the
\* payload is not the swap hook, or amount * percent / 100 is below 1
EnabledZeroFee ==
    /\ IsSend
    /\ last.pre.swap_fee_config # None
    /\ last.pre.swap_fee_config[1].enable_swap_fee
    /\ \/ last.msg # SwapMsg
       \/ last.amount * last.pre.swap_fee_config[1].swap_percent_fee
              < 100 * DECIMAL_FRACTIONAL

\* C9, as stated: with an enabled policy and a fee of 0, Send and SendFrom do what
\* the plain primitive does with the full amount, and the fee receiver's balance is
\* unchanged.
C9_ZeroFeeReceiverUnchanged ==
    EnabledZeroFee =>
        /\ CurrentStorage = PlainOutcome(last.pre).storage
        /\ last.result = PlainOutcome(last.pre).result
        /\ balances[PreReceiver] = last.pre.balances[PreReceiver]

\* C9, amended: with an enabled policy and a fee of 0, Send and SendFrom do what
\* the plain primitive does with the full amount (a success notifies the recipient
\* for the full amount), and the fee receiver's balance is unchanged unless the fee
\* receiver is itself the payer or the recipient of that plain send.
C9_ZeroFeePlainSend ==
    EnabledZeroFee =>
        /\ CurrentStorage = PlainOutcome(last.pre).storage
        /\ last.result = PlainOutcome(last.pre).result
        /\ last.result.ok =>
               /\ last.result.messages =
                      << Cw20ReceiveMsg(last.contract, last.sender, last.amount, last.msg) >>
               /\ balances = NetFlow(last.pre.balances, Payer, PreReceiver,
                                     last.contract, 0, last.amount)
        /\ PreReceiver \notin {Payer, last.contract} =>
               balances[PreReceiver] = last.pre.balances[PreReceiver]

\* a swap payload whose fee rounds down to 0 was sent successfully under an
\* enabled policy, to a recipient other than the fee receiver
C9_Witness ==
    /\ EnabledZeroFee
    /\ last.msg = SwapMsg
    /\ last.amount > 0
    /\ last.pre.swap_fee_config[1].swap_percent_fee > 0
    /\ last.result.ok
    /\ PreReceiver \notin {Payer, last.contract}

----------------------------------------------------------------------------
(* C10 *)

\* C10: the response of a successful Send or SendFrom that collects a fee carries
\* exactly one message, the receive-notification to the recipient contract, for
\* amount - fee, with the original payload and the caller as sender; its attributes
\* report the gross amount and, as fee_amount, the fee that the fee leg moved from
\* the payer to the fee receiver.
C10_FeeResponse ==
    FeeCollected =>
        LET fee == ReportedFee
        IN  /\ last.result.messages =
                   << Cw20ReceiveMsg(last.contract, last.sender, last.amount - fee, last.msg) >>
            /\ AttrValues(last.result.attributes, "amount") = {ToString(last.amount)}
            /\ AttrValues(last.result.attributes, "fee_amount") = {ToString(fee)}
            /\ AttrValues(last.result.attributes, "action") = {last.op}
            /\ AttrValues(last.result.attributes, "from") = {Payer}
            /\ AttrValues(last.result.attributes, "to") = {last.contract}
            /\ last.op = "send_from" =>
                   AttrValues(last.result.attributes, "by") = {last.sender}
            /\ Len(last.result.attributes) = IF last.op = "send" THEN 5 ELSE 6
            /\ balances = NetFlow(last.pre.balances, Payer, PreReceiver, last.contract,
                                  fee, last.amount - fee)
            /\ PreReceiver \notin {Payer, last.contract} =>
                   balances[PreReceiver] = last.pre.balances[PreReceiver] + fee

\* a SendFrom by an executor collected a fee smaller than the amount for a fee
\* receiver that is no other party of the request
C10_Witness ==
    /\ last.op = "send_from"
    /\ FeeCollected
    /\ ReportedFee < last.amount
    /\ PreReceiver \notin {Payer, last.contract, last.sender}

----------------------------------------------------------------------------
(* C11 *)

\* a Send or SendFrom with the swap payload under an enabled policy of 100%, for a
\* positive amount that the payer's balance covers, to a well-formed recipient;
\* for SendFrom the executor holds an unexpired allowance from the owner
WholeAmountFeeRequest ==
    /\ IsSend
    /\ last.msg = SwapMsg
    /\ last.amount > 0
    /\ addr_validate(last.contract)
    /\ last.pre.swap_fee_config # None
    /\ last.pre.swap_fee_config[1].enable_swap_fee
    /\ last.pre.swap_fee_config[1].swap_percent_fee = DecimalPercent(100)
    /\ last.pre.balances[Payer] >= last.amount
    /\ last.op = "send_from" =>
           /\ last.pre.allowances[<<last.owner, last.sender>>] # None
           /\ ~is_expired(last.pre.allowances[<<last.owner, last.sender>>][1].expires)

\* C11: a Send or SendFrom whose fee equals the whole amount (swap payload, policy
\* enabled at 100%, payer's balance covers the amount) succeeds with a principal of
\* zero and credits the whole amount to the fee receiver.
C11_WholeAmountFeePermitted ==
    WholeAmountFeeRequest =>
        /\ last.result.ok
        /\ balances = NetFlow(last.pre.balances, Payer, PreReceiver, last.contract,
                              last.amount, 0)

----------------------------------------------------------------------------
(* C12 *)

IsUpdate == last.op = "update_swap_fee_config"

PolicyFields == {"fee_admin", "enable_swap_fee", "swap_percent_fee", "fee_receiver"}

\* C12: after a successful UpdateSwapFeeConfig each of the four policy fields holds
\* the supplied value if the request carried one and its prior value if not, each
\* field independently of the others; a request with all four absent succeeds and
\* leaves the policy as it was. Balances and allowances are not touched.
C12_PartialUpdate ==
    (IsUpdate /\ last.result.ok) =>
        /\ last.pre.swap_fee_config # None
        /\ swap_fee_config # None
        /\ \A f \in PolicyFields :
               /\ last.upd[f] # None => swap_fee_config[1][f] = last.upd[f][1]
               /\ last.upd[f] = None => swap_fee_config[1][f] = last.pre.swap_fee_config[1][f]
        /\ last.upd = NoUpdate => swap_fee_config = last.pre.swap_fee_config
        /\ balances = last.pre.balances
        /\ allowances = last.pre.allowances

\* a successful update that carried a new percentage and a new receiver and no
\* fee_admin and no flag
C12_Witness ==
    /\ IsUpdate
    /\ last.result.ok
    /\ last.upd.fee_admin = None
    /\ last.upd.enable_swap_fee = None
    /\ last.upd.swap_percent_fee # None
    /\ last.upd.fee_receiver # None
    /\ last.pre.swap_fee_config[1].enable_swap_fee
    /\ swap_fee_config[1].swap_percent_fee # last.pre.swap_fee_config[1].swap_percent_fee
    /\ swap_fee_config[1].fee_receiver # last.pre.swap_fee_config[1].fee_receiver

----------------------------------------------------------------------------
(* C13 *)

\* C13: a Send or SendFrom whose gross amount is zero fails with the zero-amount
\* error, whatever the policy and the payload, and leaves balances, allowances and
\* policy as they were.
C13_ZeroAmountRefused ==
    (IsSend /\ last.amount = 0) =>
        /\ ~last.result.ok
        /\ last.result.err = "InvalidZeroAmount"
        /\ CurrentStorage = last.pre

----------------------------------------------------------------------------
(* C14 *)

----------------------------------------------------------------------------
(* C15 *)

\* C15: whether a policy exists is fixed at instantiate: no step creates one where
\* none is stored and no step removes a stored one; and the stored record differs
\* after a step only if that step is a successful UpdateSwapFeeConfig.
C15_PolicyLifecycle ==
    [][ /\ (swap_fee_config' = None) <=> (swap_fee_config = None)
        /\ swap_fee_config' # swap_fee_config =>
               /\ last'.op = "update_swap_fee_config"
               /\ last'.result.ok ]_vars

\* a successful update has replaced the stored record, fee_admin and flag included
C15_Witness ==
    /\ IsUpdate
    /\ last.result.ok
    /\ swap_fee_config # None
    /\ last.pre.swap_fee_config # None
    /\ swap_fee_config[1].fee_admin # last.pre.swap_fee_config[1].fee_admin
    /\ swap_fee_config[1].enable_swap_fee # last.pre.swap_fee_config[1].enable_swap_fee

----------------------------------------------------------------------------
(* C16 *)

IsQuery == last.op = "query_swap_fee_config"

\* C16: the SwapFeeConfig query never fails: it returns the four fields of the
\* stored policy when one is stored and the zero-valued default record (empty
\* fee_admin and fee_receiver, flag false, percentage 0) when none is, and it leaves
\* balances, allowances, token info and policy as they were.
C16_QueryNeverFails ==
    IsQuery =>
        /\ last.result.ok
        /\ CurrentStorage = last.pre
        /\ IF last.pre.swap_fee_config = None
           THEN /\ last.result.data.fee_admin = ""
                /\ last.result.data.enable_swap_fee = FALSE
                /\ last.result.data.swap_percent_fee = 0
                /\ last.result.data.fee_receiver = ""
           ELSE \A f \in PolicyFields :
                    last.result.data[f] = last.pre.swap_fee_config[1][f]

\* the query has been answered with the default record: no policy is stored
C16_Witness ==
    /\ IsQuery
    /\ swap_fee_config = None
    /\ last.result.ok
    /\ last.result.data = DefaultSwapFeeConfigResponse

----------------------------------------------------------------------------
(* The fee calculation taken alone *)

\* every Uint128, and every Decimal from 0% to MaxFeePercent% in steps of one unit
\* of the last decimal place
FeeAmounts == 0..UINT128_MAX
FeePercents == 0..DecimalPercent(MaxFeePercent)

\* a policy is stored and a Send of `amount` with payload `msg` has reached
\* calculate_fee_amount
InitFee ==
    /\ balances = [a \in Addrs |-> 0]
    /\ allowances = [p \in AllowanceKeys |-> None]
    /\ token_info = [total_supply |-> 0, mint |-> None]
    /\ replaced_receiver = None
    /\ swap_fee_config \in
           {Some(c) : c \in [fee_admin : {"sender"}, enable_swap_fee : BOOLEAN,
                             swap_percent_fee : FeePercents,
                             fee_receiver : {"fee_receiver"}]}
    /\ last \in [op : {"fee_input"}, amount : FeeAmounts, msg : Payloads]

CalculateFee ==
    /\ last.op = "fee_input"
    /\ last' = [op |-> "calculate_fee_amount", amount |-> last.amount, msg |-> last.msg,
                fee |-> calculate_fee_amount_call(last.amount, last.msg,
                                                  swap_fee_config[1])]
    /\ UNCHANGED <<balances, allowances, swap_fee_config, token_info, replaced_receiver>>

NextFee == CalculateFee

SpecFee == InitFee /\ [][NextFee]_vars

----------------------------------------------------------------------------
(* C17 *)

\* C17: calculate_fee_amount returns 0 when enable_swap_fee is false or the payload
\* is not the swap hook, and floor(amount * pct / 100) otherwise, for every amount
\* and every decimal percentage: truncating twice (amount * pct, then / 100) gives
\* what truncating once gives.
C17_FeeFormula ==
    last.op = "calculate_fee_amount" =>
        LET cfg == swap_fee_config[1]
        IN  /\ ~last.fee.panicked
            /\ last.fee.value =
                   IF cfg.enable_swap_fee /\ last.msg = SwapMsg
                   THEN (last.amount * cfg.swap_percent_fee) \div (100 * DECIMAL_FRACTIONAL)
                   ELSE 0

----------------------------------------------------------------------------
(* C18 *)

Malformed(opt) == opt # None /\ ~addr_validate(opt[1])

\* C18: an UpdateSwapFeeConfig sent by the stored fee_admin that carries a malformed
\* fee_admin or a malformed fee_receiver fails with the address validation error and
\* leaves the whole policy as it was, whichever other fields it carries; nothing
\* else in the storage changes either.
C18_MalformedAddressRejected ==
    (/\ IsUpdate
     /\ ~NotFeeAdmin
     /\ Malformed(last.upd.fee_admin) \/ Malformed(last.upd.fee_receiver)) =>
        /\ ~last.result.ok
        /\ last.result.err = "InvalidAddress"
        /\ swap_fee_config = last.pre.swap_fee_config
        /\ CurrentStorage = last.pre

\* the fee_admin has sent a well-formed new fee_admin, a new flag and a new
\* percentage together with a malformed fee_receiver, and was refused
C18_Witness ==
    /\ IsUpdate
    /\ ~NotFeeAdmin
    /\ last.upd.fee_admin # None
    /\ addr_validate(last.upd.fee_admin[1])
    /\ last.upd.fee_admin[1] # last.pre.swap_fee_config[1].fee_admin
    /\ last.upd.enable_swap_fee # None
    /\ last.upd.enable_swap_fee[1] # last.pre.swap_fee_config[1].enable_swap_fee
    /\ last.upd.swap_percent_fee # None
    /\ last.upd.swap_percent_fee[1] # last.pre.swap_fee_config[1].swap_percent_fee
    /\ Malformed(last.upd.fee_receiver)
    /\ last.result.err = "InvalidAddress"

----------------------------------------------------------------------------
(* C19 *)

\* a successful update that named a fee_admin other than its sender
Handover ==
    /\ IsUpdate
    /\ last.result.ok
    /\ last.upd.fee_admin # None
    /\ last.upd.fee_admin[1] # last.sender

WellFormed(upd) == ~Malformed(upd.fee_admin) /\ ~Malformed(upd.fee_receiver)

\* C19: an update is authorized against the fee_admin stored when it is called: it
\* fails with Unauthorized exactly when its sender is not that fee_admin (or no
\* policy is stored), and a well-formed update from that fee_admin succeeds.  Once a
\* successful update has made X the fee_admin, X is the stored fee_admin, the other
\* fields carried by that same request are stored too, every update from the
\* previous admin fails with Unauthorized and leaves the storage alone, and every
\* well-formed update from X succeeds.
C19_AdminHandover ==
    /\ IsUpdate =>
           /\ (~last.result.ok /\ last.result.err = "Unauthorized") <=> NotFeeAdmin
           /\ (~NotFeeAdmin /\ WellFormed(last.upd)) => last.result.ok
    /\ Handover =>
           /\ swap_fee_config[1].fee_admin = last.upd.fee_admin[1]
           /\ \A f \in PolicyFields :
                  last.upd[f] # None => swap_fee_config[1][f] = last.upd[f][1]
           /\ \A upd \in Updates :
                  /\ update_swap_fee_config(CurrentStorage, last.sender, upd)
                         = Outcome(CurrentStorage, Err("Unauthorized"))
                  /\ WellFormed(upd) =>
                         update_swap_fee_config(CurrentStorage, last.upd.fee_admin[1],
                                                upd).result.ok

\* the fee_admin has handed the role to another identity in a request that also
\* changed the percentage and the receiver
C19_Witness ==
    /\ Handover
    /\ last.pre.swap_fee_config[1].fee_admin = last.sender
    /\ swap_fee_config[1].fee_admin # last.sender
    /\ last.upd.swap_percent_fee # None
    /\ swap_fee_config[1].swap_percent_fee # last.pre.swap_fee_config[1].swap_percent_fee
    /\ last.upd.fee_receiver # None
    /\ swap_fee_config[1].fee_receiver # last.pre.swap_fee_config[1].fee_receiver

----------------------------------------------------------------------------
(* C20 *)

\* a fee has been collected after an update replaced the fee receiver
FeeCollectedAfterReceiverChange == FeeCollected /\ replaced_receiver # None

\* C20, as stated: a fee-bearing Send or SendFrom that follows a successful change
\* of the policy takes its fee from the percentage and flag now stored, pays it to
\* the fee receiver now stored, and leaves the balance of the previous fee receiver
\* as it was.
C20_PreviousReceiverUntouched ==
    FeeCollectedAfterReceiverChange =>
        LET policy == last.pre.swap_fee_config[1]
        IN  /\ policy.enable_swap_fee
            /\ ReportedFee = (last.amount * policy.swap_percent_fee)
                                 \div (100 * DECIMAL_FRACTIONAL)
            /\ balances = NetFlow(last.pre.balances, Payer, policy.fee_receiver,
                                  last.contract, ReportedFee, last.amount - ReportedFee)
            /\ balances[replaced_receiver[1]] = last.pre.balances[replaced_receiver[1]]

\* C20, amended: every fee-bearing Send or SendFrom takes its fee from the
\* percentage and flag stored when it is called and pays it to the fee receiver
\* stored then, whatever the policy was before: each balance moves by the net of the
\* legs the account takes part in under the current policy, so a previous fee
\* receiver gets nothing from the fee, and its balance is as it was unless it is
\* itself the payer, the recipient or the current fee receiver of that send.
C20_PolicyAtRequestTime ==
    FeeCollected =>
        LET policy == last.pre.swap_fee_config[1]
        IN  /\ policy.enable_swap_fee
            /\ last.msg = SwapMsg
            /\ ReportedFee = (last.amount * policy.swap_percent_fee)
                                 \div (100 * DECIMAL_FRACTIONAL)
            /\ balances = NetFlow(last.pre.balances, Payer, policy.fee_receiver,
                                  last.contract, ReportedFee, last.amount - ReportedFee)
            /\ swap_fee_config = last.pre.swap_fee_config
            /\ (/\ replaced_receiver # None
                /\ replaced_receiver[1] \notin {Payer, last.contract, policy.fee_receiver}) =>
                   balances[replaced_receiver[1]] = last.pre.balances[replaced_receiver[1]]

\* after an update moved the policy from one receiver to another, a send has paid
\* its fee to the new receiver while the previous one, holding tokens, kept its
\* balance
C20_Witness ==
    /\ FeeCollectedAfterReceiverChange
    /\ replaced_receiver[1] \notin {Payer, last.contract, PreReceiver}
    /\ balances[PreReceiver] = last.pre.balances[PreReceiver] + ReportedFee
    /\ ReportedFee > 0
    /\ balances[replaced_receiver[1]] > 0
    /\ balances[replaced_receiver[1]] = last.pre.balances[replaced_receiver[1]]

----------------------------------------------------------------------------
(* C21 *)

\* the answered message is one of the operations other than Send, SendFrom and
\* UpdateSwapFeeConfig
IsPlainOperation ==
    last.op \in {"transfer", "transfer_from", "burn", "burn_from", "mint",
                 "increase_allowance", "decrease_allowance"}

\* the plain primitive of the answered operation, run on the storage the operation
\* was called on; `expires` is the expiry argument of the allowance operations
PlainPrimitive(expires) ==
    CASE last.op = "transfer" ->
           cw20_execute_transfer(last.pre, last.sender, last.contract, last.amount)
      [] last.op = "transfer_from" ->
           cw20_execute_transfer_from(last.pre, last.sender, last.owner, last.contract,
                                      last.amount)
      [] last.op = "burn" ->
           cw20_execute_burn(last.pre, last.sender, last.amount)
      [] last.op = "burn_from" ->
           cw20_execute_burn_from(last.pre, last.sender, last.owner, last.amount)
      [] last.op = "mint" ->
           cw20_execute_mint(last.pre, last.sender, last.contract, last.amount)
      [] last.op = "increase_allowance" ->
           cw20_execute_increase_allowance(last.pre, last.sender, last.contract,
                                           last.amount, expires)
      [] last.op = "decrease_allowance" ->
           cw20_execute_decrease_allowance(last.pre, last.sender, last.contract,
                                           last.amount, expires)

\* the sender, owner and recipient the answered message names
NamedParties == {last.sender, last.owner, last.contract}

\* C21: whatever policy is stored, Transfer, TransferFrom, Burn, BurnFrom, Mint,
\* IncreaseAllowance and DecreaseAllowance leave the storage and return the Result
\* that the plain cw20 primitive leaves and returns for the same arguments; they
\* report no fee_amount, leave the policy as it was, and leave the balance of every
\* account they do not name as sender, owner or recipient as it was: the balance of
\* the fee receiver changes only when the fee receiver is one of the named parties.
C21_OnlySendsEngageFeePath ==
    IsPlainOperation =>
        /\ \E expires \in Option(Expirations) :
             Outcome(CurrentStorage, last.result) = PlainPrimitive(expires)
        /\ swap_fee_config = last.pre.swap_fee_config
        /\ last.result.ok => AttrValues(last.result.attributes, "fee_amount") = {}
        /\ \A a \in Addrs \ NamedParties : balances[a] = last.pre.balances[a]
        /\ (last.pre.swap_fee_config # None /\ PreReceiver \notin NamedParties) =>
               balances[PreReceiver] = last.pre.balances[PreReceiver]

\* under an enabled policy with a positive percentage, whose fee receiver holds
\* tokens and is neither the sender nor the recipient, a Transfer of a positive
\* amount has succeeded: the recipient has the whole amount and the fee receiver's
\* balance is as it was
C21_Witness ==
    /\ last.op = "transfer"
    /\ last.result.ok
    /\ last.amount > 0
    /\ last.pre.swap_fee_config # None
    /\ last.pre.swap_fee_config[1].enable_swap_fee
    /\ last.pre.swap_fee_config[1].swap_percent_fee > 0
    /\ PreReceiver \notin NamedParties
    /\ balances[PreReceiver] > 0
    /\ balances[PreReceiver] = last.pre.balances[PreReceiver]
    /\ balances[last.contract] = last.pre.balances[last.contract] + last.amount

====
